---- MODULE Spec2Model ----
(***************************************************************************)
(* Session synchronisation of creacionesJL: the AuthProvider of            *)
(* src/context/AuthContext.tsx, the authService functions it delegates to  *)
(* and the identity provider (supabase.auth) seen through the calls the    *)
(* code makes on it.                                                       *)
(*                                                                         *)
(* The state setters called in one callback (setSession, setUser,          *)
(* setIsLoading in updateAuthState) are committed together, as React's     *)
(* batching commits them: one action per callback.                         *)
(***************************************************************************)
EXTENDS Integers, Sequences, FiniteSets, TLC

\* ---------------------------------------------------------------- bounds
MaxCalls == 1      \* login/register/logout calls outstanding at one time
MaxEvents == 1     \* change-events emitted and not yet handed to a listener

\* ---------------------------------------------------------------- values
\* null / undefined
NULL == [null |-> TRUE]
\* a rejected promise (an exception raised by the awaited call)
Thrown == [thrown |-> TRUE]

Emails == {"a@b.com", "c@d.com"}
Users == [email : Emails]
\* Session of @supabase/supabase-js: a token bundle carrying its user
Sessions == {[access_token |-> "t1", user |-> [email |-> "a@b.com"]],
             [access_token |-> "t2", user |-> [email |-> "c@d.com"]]}
SessionOrNull == Sessions \cup {NULL}

\* an error the provider reports in its answer
ProviderError == [name |-> "AuthApiError", message |-> "Invalid login credentials"]
\* `{ name: 'UnexpectedError', message } as AuthError`
UnexpectedError(msg) == [name |-> "UnexpectedError", message |-> msg]

Kinds == {"login", "register", "logout"}
CallIds == 1..MaxCalls

VARIABLES
    user,         \* useState<User | null>
    session,      \* useState<Session | null>
    isLoading,    \* useState<boolean>
    mounted,      \* the AuthProvider scope is alive (cleanup not yet run)
    subscribed,   \* the onAuthStateChange listener is registered
    unsubscribes, \* number of subscription.unsubscribe() calls
    fetch,        \* the supabase.auth.getSession() promise of the effect
    provSession,  \* the identity provider's current session
    events,       \* change-events emitted, oldest first
    provHeld,     \* the provider has held a session since the scope was created
    calls         \* the login/register/logout calls, by slot: a slot holds a
                  \* call from its start until the next call takes the slot

vars == <<user, session, isLoading, mounted, subscribed, unsubscribes,
          fetch, provSession, events, provHeld, calls>>

\* `session?.user ?? null`
UserOf(s) == IF s = NULL THEN NULL ELSE s.user

\* `!!user`
Truthy(v) == v # NULL

isAuthenticated == Truthy(user)

\* updateAuthState that sets the user only from a present session
updateAuthState_KeepsUser(s) ==
    /\ session' = s
    /\ user' = IF s = NULL THEN user ELSE s.user
    /\ isLoading' = FALSE

\* const updateAuthState = (session) => { setSession; setUser; setIsLoading }
updateAuthState(s) ==
    /\ session' = s
    /\ user' = UserOf(s)
    /\ isLoading' = FALSE

IdleCall == [kind |-> "none", pc |-> "idle", arg |-> NULL, resp |-> NULL, result |-> NULL]

Init ==
    /\ user = NULL
    /\ session = NULL
    /\ isLoading = TRUE
    /\ mounted = TRUE
    /\ subscribed = TRUE
    /\ unsubscribes = 0
    /\ fetch = [pc |-> "pending", resp |-> NULL]
    /\ provSession \in SessionOrNull
    /\ events = <<>>
    /\ provHeld = (provSession # NULL)
    /\ calls = [c \in CallIds |-> IdleCall]

\* ------------------------------------------------ identity provider
\* _notifyAllSubscribers: a change-event carrying the session
Emit(s) == events' = Append(events, s)

\* supabase.auth.getSession() answers: the stored session, an error with a
\* null session, or an exception
GetSessionAnswer(o) ==
    /\ fetch.pc = "pending"
    /\ fetch' = [pc |-> "answered",
                 resp |-> CASE o = "ok" -> [data |-> [session |-> provSession], error |-> NULL]
                            [] o = "error" -> [data |-> [session |-> NULL], error |-> ProviderError]
                            [] OTHER -> Thrown]
    /\ UNCHANGED <<user, session, isLoading, mounted, subscribed, unsubscribes,
                   provSession, events, provHeld, calls>>

\* The provider changes its session on its own: token refresh, expiry,
\* sign-in or sign-out in another tab; it emits a change-event
ExternalChange(s) ==
    /\ Len(events) < MaxEvents
    /\ s # provSession
    /\ provSession' = s
    /\ provHeld' = (provHeld \/ s # NULL)
    /\ Emit(s)
    /\ UNCHANGED <<user, session, isLoading, mounted, subscribed, unsubscribes,
                   fetch, calls>>

\* supabase.auth.signInWithPassword({email, password}) answers; s is the
\* session the provider issues to the account of that e-mail
signInWithPassword(c, o, s) ==
    /\ calls[c].kind = "login" /\ calls[c].pc = "awaiting"
    /\ s.user = [email |-> calls[c].arg]
    /\ CASE o = "ok" ->
              /\ Len(events) < MaxEvents
              /\ provSession' = s
              /\ provHeld' = TRUE
              /\ Emit(s)
              /\ calls' = [calls EXCEPT ![c].pc = "answered", ![c].arg = NULL,
                              ![c].resp = [data |-> [user |-> s.user, session |-> s],
                                           error |-> NULL]]
         [] o = "error" ->
              /\ calls' = [calls EXCEPT ![c].pc = "answered", ![c].arg = NULL,
                              ![c].resp = [data |-> [user |-> NULL, session |-> NULL],
                                           error |-> ProviderError]]
              /\ UNCHANGED <<provSession, provHeld, events>>
         [] OTHER ->
              /\ calls' = [calls EXCEPT ![c].pc = "answered", ![c].arg = NULL, ![c].resp = Thrown]
              /\ UNCHANGED <<provSession, provHeld, events>>
    /\ UNCHANGED <<user, session, isLoading, mounted, subscribed, unsubscribes,
                   fetch>>

\* supabase.auth.signUp({email, password, options}) answers; "confirm": the
\* user is created and must confirm the e-mail, no session is issued
signUp(c, o, s) ==
    /\ calls[c].kind = "register" /\ calls[c].pc = "awaiting"
    /\ s.user = [email |-> calls[c].arg]
    /\ CASE o = "ok" ->
              /\ Len(events) < MaxEvents
              /\ provSession' = s
              /\ provHeld' = TRUE
              /\ Emit(s)
              /\ calls' = [calls EXCEPT ![c].pc = "answered", ![c].arg = NULL,
                              ![c].resp = [data |-> [user |-> s.user, session |-> s],
                                           error |-> NULL]]
         [] o = "confirm" ->
              /\ calls' = [calls EXCEPT ![c].pc = "answered", ![c].arg = NULL,
                              ![c].resp = [data |-> [user |-> [email |-> calls[c].arg],
                                                     session |-> NULL],
                                           error |-> NULL]]
              /\ UNCHANGED <<provSession, provHeld, events>>
         [] o = "error" ->
              /\ calls' = [calls EXCEPT ![c].pc = "answered", ![c].arg = NULL,
                              ![c].resp = [data |-> [user |-> NULL, session |-> NULL],
                                           error |-> ProviderError]]
              /\ UNCHANGED <<provSession, provHeld, events>>
         [] OTHER ->
              /\ calls' = [calls EXCEPT ![c].pc = "answered", ![c].arg = NULL, ![c].resp = Thrown]
              /\ UNCHANGED <<provSession, provHeld, events>>
    /\ UNCHANGED <<user, session, isLoading, mounted, subscribed, unsubscribes,
                   fetch>>

\* supabase.auth.signOut() answers; on success the session is removed and a
\* change-event with a null session is emitted
signOut(c, o) ==
    /\ calls[c].kind = "logout" /\ calls[c].pc = "awaiting"
    /\ CASE o = "ok" ->
              /\ Len(events) < MaxEvents
              /\ provSession' = NULL
              /\ UNCHANGED provHeld
              /\ Emit(NULL)
              /\ calls' = [calls EXCEPT ![c].pc = "answered", ![c].arg = NULL,
                              ![c].resp = [error |-> NULL]]
         [] o = "error" ->
              /\ calls' = [calls EXCEPT ![c].pc = "answered", ![c].arg = NULL,
                              ![c].resp = [error |-> ProviderError]]
              /\ UNCHANGED <<provSession, provHeld, events>>
         [] OTHER ->
              /\ calls' = [calls EXCEPT ![c].pc = "answered", ![c].arg = NULL, ![c].resp = Thrown]
              /\ UNCHANGED <<provSession, provHeld, events>>
    /\ UNCHANGED <<user, session, isLoading, mounted, subscribed, unsubscribes,
                   fetch>>

\* A change-event reaches the provider's listener list after the listener was
\* removed: no callback runs
NotifyNoListener ==
    /\ events # <<>>
    /\ ~subscribed
    /\ events' = Tail(events)
    /\ UNCHANGED <<user, session, isLoading, mounted, subscribed, unsubscribes,
                   fetch, provSession, provHeld, calls>>

\* ------------------------------------------------ authService.tsx
\* loginUser without its catch block: the exception propagates
loginUser_NoCatch(resp) ==
    IF resp = Thrown
    THEN Thrown
    ELSE [user |-> resp.data.user, session |-> resp.data.session, error |-> resp.error]

\* loginUser: try { signInWithPassword } catch { UnexpectedError }
loginUser(resp) ==
    IF resp = Thrown
    THEN [user |-> NULL, session |-> NULL,
          error |-> UnexpectedError("Ocurrio un error inesperado al iniciar sesion")]
    ELSE [user |-> resp.data.user, session |-> resp.data.session, error |-> resp.error]

\* registerUser that replaces a reported error by its own generic one
registerUser_WrapsError(resp) ==
    IF resp = Thrown \/ resp.error # NULL
    THEN [user |-> NULL, session |-> NULL,
          error |-> UnexpectedError("Ocurrio un error inesperado al registrar el usuario")]
    ELSE [user |-> resp.data.user, session |-> resp.data.session, error |-> resp.error]

\* registerUser: try { signUp } catch { UnexpectedError }
registerUser(resp) ==
    IF resp = Thrown
    THEN [user |-> NULL, session |-> NULL,
          error |-> UnexpectedError("Ocurrio un error inesperado al registrar el usuario")]
    ELSE [user |-> resp.data.user, session |-> resp.data.session, error |-> resp.error]

\* logoutUser without its catch block: the exception propagates
logoutUser_NoCatch(resp) ==
    IF resp = Thrown THEN Thrown ELSE [error |-> resp.error]

\* logoutUser: try { signOut } catch { UnexpectedError }
logoutUser(resp) ==
    IF resp = Thrown
    THEN [error |-> UnexpectedError("Ocurrio un error inesperado al cerrar sesion")]
    ELSE [error |-> resp.error]

\* ------------------------------------------------ AuthContext.tsx
\* a then-callback that drops the fetch result once the state was initialised
GetSessionThen_OnlyWhileLoading ==
    /\ fetch.pc = "answered"
    /\ fetch.resp # Thrown
    /\ IF isLoading
       THEN updateAuthState(fetch.resp.data.session)
       ELSE UNCHANGED <<user, session, isLoading>>
    /\ fetch' = [pc |-> "resolved", resp |-> NULL]
    /\ UNCHANGED <<mounted, subscribed, unsubscribes, provSession, events,
                   provHeld, calls>>

\* getSession().then(({ data: { session } }) => updateAuthState(session))
GetSessionThen ==
    /\ fetch.pc = "answered"
    /\ fetch.resp # Thrown
    /\ updateAuthState(fetch.resp.data.session)
    /\ fetch' = [pc |-> "resolved", resp |-> NULL]
    /\ UNCHANGED <<mounted, subscribed, unsubscribes, provSession, events,
                   provHeld, calls>>

\* getSession() rejects: the promise chain has no rejection handler, the
\* then-callback does not run
GetSessionRejected ==
    /\ fetch.pc = "answered"
    /\ fetch.resp = Thrown
    /\ fetch' = [pc |-> "rejected", resp |-> NULL]
    /\ UNCHANGED <<user, session, isLoading, mounted, subscribed, unsubscribes,
                   provSession, events, provHeld, calls>>

\* a listener that handles only the events carrying a session
onAuthStateChange_IgnoresNull ==
    /\ events # <<>>
    /\ subscribed
    /\ IF Head(events) = NULL
       THEN UNCHANGED <<user, session, isLoading>>
       ELSE updateAuthState(Head(events))
    /\ events' = Tail(events)
    /\ UNCHANGED <<mounted, subscribed, unsubscribes, fetch, provSession,
                   provHeld, calls>>

\* onAuthStateChange((_event, session) => updateAuthState(session))
onAuthStateChange ==
    /\ events # <<>>
    /\ subscribed
    /\ updateAuthState(Head(events))
    /\ events' = Tail(events)
    /\ UNCHANGED <<mounted, subscribed, unsubscribes, fetch, provSession,
                   provHeld, calls>>

\* a cleanup that releases nothing
cleanup_KeepsSubscription == UNCHANGED <<subscribed, unsubscribes>>

\* return () => { subscription.unsubscribe() }
cleanup ==
    /\ subscribed' = FALSE
    /\ unsubscribes' = unsubscribes + 1

\* The AuthProvider unmounts: React runs the effect's cleanup
Unmount ==
    /\ mounted
    /\ mounted' = FALSE
    /\ cleanup
    /\ UNCHANGED <<user, session, isLoading, fetch, provSession, events,
                   provHeld, calls>>

\* A consumer calls an operation of the context value: the code up to the await
Start(c, k, a) ==
    /\ mounted
    /\ calls[c].pc \in {"idle", "returned"}
    \* the lowest free slot: which slot holds the call is not observable
    /\ \A d \in 1..(c - 1) : calls[d].pc \in {"awaiting", "answered"}
    /\ isLoading' = TRUE
    /\ calls' = [calls EXCEPT ![c] = [kind |-> k, pc |-> "awaiting", arg |-> a,
                                      resp |-> NULL, result |-> NULL]]
    /\ UNCHANGED <<user, session, mounted, subscribed, unsubscribes, fetch,
                   provSession, events, provHeld>>

\* login: setIsLoading(true); await loginUser(email, password)
loginStart(c, email) == Start(c, "login", email)

\* register: setIsLoading(true); await registerUser(email, password, ...)
registerStart(c, email) == Start(c, "register", email)

\* logout: setIsLoading(true); await logoutUser()
logoutStart(c) == Start(c, "logout", NULL)

\* the code after the await, guarded by a mounted flag: after teardown the
\* call still returns but writes no state
Settle_SkipsWhenUnmounted(c, k, r, ret) ==
    /\ calls[c].kind = k
    /\ calls[c].pc = "answered"
    /\ IF r = Thrown
       THEN /\ calls' = [calls EXCEPT ![c].pc = "returned", ![c].arg = NULL,
                                      ![c].resp = NULL, ![c].result = Thrown]
            /\ UNCHANGED isLoading
       ELSE /\ calls' = [calls EXCEPT ![c].pc = "returned", ![c].arg = NULL,
                                      ![c].resp = NULL, ![c].result = ret]
            /\ isLoading' = (isLoading /\ ~mounted)
    /\ UNCHANGED <<user, session, mounted, subscribed, unsubscribes, fetch,
                   provSession, events, provHeld>>

\* The code after the await: an exception of the awaited call leaves the
\* function at the await; otherwise setIsLoading(false) and the return value
Settle(c, k, r, ret) ==
    /\ calls[c].kind = k
    /\ calls[c].pc = "answered"
    /\ IF r = Thrown
       THEN /\ calls' = [calls EXCEPT ![c].pc = "returned", ![c].arg = NULL,
                                      ![c].resp = NULL, ![c].result = Thrown]
            /\ UNCHANGED isLoading
       ELSE /\ calls' = [calls EXCEPT ![c].pc = "returned", ![c].arg = NULL,
                                      ![c].resp = NULL, ![c].result = ret]
            /\ isLoading' = FALSE
    /\ UNCHANGED <<user, session, mounted, subscribed, unsubscribes, fetch,
                   provSession, events, provHeld>>

\* login that stores the session its call returned
login_StoresReturnedSession(c) ==
    LET r == loginUser(calls[c].resp) IN
    /\ calls[c].kind = "login"
    /\ calls[c].pc = "answered"
    /\ calls' = [calls EXCEPT ![c].pc = "returned", ![c].arg = NULL,
                              ![c].resp = NULL, ![c].result = [error |-> r.error]]
    /\ session' = r.session
    /\ user' = r.user
    /\ isLoading' = FALSE
    /\ UNCHANGED <<mounted, subscribed, unsubscribes, fetch, provSession, events,
                   provHeld>>

\* login that returns a reported error before setIsLoading(false)
login_ReturnsEarlyOnError(c) ==
    LET r == loginUser(calls[c].resp) IN
    /\ calls[c].kind = "login"
    /\ calls[c].pc = "answered"
    /\ calls' = [calls EXCEPT ![c].pc = "returned", ![c].arg = NULL,
                              ![c].resp = NULL, ![c].result = [error |-> r.error]]
    /\ isLoading' = (r.error # NULL /\ isLoading)
    /\ UNCHANGED <<user, session, mounted, subscribed, unsubscribes, fetch,
                   provSession, events, provHeld>>

\* login that calls setIsLoading(false) only when the call failed
login_LeavesLoadingOnSuccess(c) ==
    LET r == loginUser(calls[c].resp) IN
    /\ calls[c].kind = "login"
    /\ calls[c].pc = "answered"
    /\ calls' = [calls EXCEPT ![c].pc = "returned", ![c].arg = NULL,
                              ![c].resp = NULL, ![c].result = [error |-> r.error]]
    /\ isLoading' = (r.error = NULL /\ isLoading)
    /\ UNCHANGED <<user, session, mounted, subscribed, unsubscribes, fetch,
                   provSession, events, provHeld>>

\* login: const { error } = await loginUser(); setIsLoading(false); return { error }
login(c) ==
    LET r == loginUser(calls[c].resp) IN
    Settle(c, "login", r, IF r = Thrown THEN NULL ELSE [error |-> r.error])

\* register that stores the session its call returned
register_StoresReturnedSession(c) ==
    LET r == registerUser(calls[c].resp) IN
    /\ calls[c].kind = "register"
    /\ calls[c].pc = "answered"
    /\ calls' = [calls EXCEPT ![c].pc = "returned", ![c].arg = NULL,
                              ![c].resp = NULL, ![c].result = [error |-> r.error]]
    /\ session' = r.session
    /\ user' = r.user
    /\ isLoading' = FALSE
    /\ UNCHANGED <<mounted, subscribed, unsubscribes, fetch, provSession, events,
                   provHeld>>

\* register: const { error } = await registerUser(); setIsLoading(false); return { error }
register(c) ==
    LET r == registerUser(calls[c].resp) IN
    Settle(c, "register", r, IF r = Thrown THEN NULL ELSE [error |-> r.error])

\* logout: await logoutUser(); setIsLoading(false)   (Promise<void>)
logout(c) ==
    Settle(c, "logout", logoutUser(calls[c].resp), NULL)

Next ==
    \/ \E o \in {"ok", "error", "throw"} : GetSessionAnswer(o)
    \/ GetSessionThen
    \/ GetSessionRejected
    \/ \E s \in SessionOrNull : ExternalChange(s)
    \/ onAuthStateChange
    \/ NotifyNoListener
    \/ Unmount
    \/ \E c \in CallIds, e \in Emails : loginStart(c, e)
    \/ \E c \in CallIds, e \in Emails : registerStart(c, e)
    \/ \E c \in CallIds : logoutStart(c)
    \/ \E c \in CallIds, o \in {"ok", "error", "throw"} :
           \E s \in Sessions : signInWithPassword(c, o, s)
    \/ \E c \in CallIds, o \in {"ok", "confirm", "error", "throw"} :
           \E s \in Sessions : signUp(c, o, s)
    \/ \E c \in CallIds, o \in {"ok", "error", "throw"} : signOut(c, o)
    \/ \E c \in CallIds : login(c)
    \/ \E c \in CallIds : register(c)
    \/ \E c \in CallIds : logout(c)

Spec == Init /\ [][Next]_vars

\* ------------------------------------------------ steps, as the claims name them
\* call c starts as an operation of kind k
Starts(c, k) ==
    /\ calls[c].pc \in {"idle", "returned"}
    /\ calls'[c].pc = "awaiting"
    /\ calls'[c].kind = k

\* the provider answers call c of kind k
Answers(c, k) ==
    /\ calls[c].kind = k
    /\ calls[c].pc = "awaiting"
    /\ calls'[c].pc = "answered"

\* call c of kind k settles
Settles(c, k) ==
    /\ calls[c].kind = k
    /\ calls[c].pc = "answered"
    /\ calls'[c].pc = "returned"

\* the initial getSession() promise settles
FetchSettles ==
    /\ fetch.pc \in {"pending", "answered"}
    /\ fetch'.pc \in {"resolved", "rejected"}

\* the then-callback of the initial getSession() runs
FetchDelivered == fetch.pc = "answered" /\ fetch'.pc = "resolved"

\* the listener of onAuthStateChange runs on the oldest change-event
EventDelivered == subscribed /\ events # <<>> /\ events' = Tail(events)

Outstanding(c) == calls[c].pc \in {"awaiting", "answered"}

FetchUnsettled == fetch.pc \in {"pending", "answered"}

\* ------------------------------------------------ claims
\* C1: in every reachable state isAuthenticated is true exactly when user is
\* not null, user is session.user when session is not null, and user is null
\* when session is null.
C1_UserMirrorsSession ==
    /\ isAuthenticated = (user # NULL)
    /\ session # NULL => user = session.user
    /\ session = NULL => user = NULL

\* C1 witness: after a login, a delivered change-event and the initial fetch,
\* a session is stored and the state is authenticated.
C1_Witness ==
    /\ session # NULL
    /\ isAuthenticated
    /\ fetch.pc = "resolved"
    /\ \E c \in CallIds : calls[c].pc = "returned" /\ calls[c].kind = "login"

\* C2 (as claimed): isLoading is true only while the initial fetch is unsettled
\* or a login/register/logout call is outstanding, and it is false in the
\* state right after any such call settles.
C2_LoadingOnlyWhilePending ==
    /\ [](isLoading => (FetchUnsettled \/ \E c \in CallIds : Outstanding(c)))
    /\ [][\A c \in CallIds, k \in Kinds : Settles(c, k) => ~isLoading']_vars

\* C3 (as claimed): the first settlement of the initial getSession() call
\* leaves isLoading false, whether the call succeeded or failed, and a failed
\* fetch stores a null session and a null user.
C3_FetchSettlementReady ==
    [][FetchSettles =>
          /\ ~isLoading'
          /\ (fetch.resp = Thrown \/ fetch.resp.error # NULL)
                => (session' = NULL /\ user' = NULL)]_vars

\* C4 (as claimed): login, register and logout never throw; each resolves
\* with a result carrying an error field, and an exception of the delegate
\* call becomes an error named 'UnexpectedError' with a message.
C4_AllResolveWithError ==
    [][\A c \in CallIds, k \in Kinds :
          Settles(c, k) =>
              /\ calls'[c].result # Thrown
              /\ "error" \in DOMAIN calls'[c].result
              /\ calls[c].resp = Thrown =>
                    /\ calls'[c].result.error.name = "UnexpectedError"
                    /\ "message" \in DOMAIN calls'[c].result.error]_vars

\* C4 (amended): login, register and logout never throw; login and register
\* resolve with a result carrying an error field, in which an exception of
\* the delegate call is an error named 'UnexpectedError' with a message;
\* logout resolves with no value.
C4_NeverThrow ==
    [][\A c \in CallIds, k \in Kinds :
          Settles(c, k) =>
              /\ calls'[c].result # Thrown
              /\ k \in {"login", "register"} =>
                    /\ "error" \in DOMAIN calls'[c].result
                    /\ calls[c].resp = Thrown =>
                          /\ calls'[c].result.error.name = "UnexpectedError"
                          /\ "message" \in DOMAIN calls'[c].result.error
              /\ k = "logout" => calls'[c].result = NULL]_vars

\* C4 witness: a login whose delegate call raised an exception has resolved
\* with the normalized error.
C4_Witness ==
    \E c \in CallIds :
        /\ calls[c].pc = "returned"
        /\ calls[c].kind = "login"
        /\ calls[c].result # Thrown
        /\ calls[c].result.error # NULL
        /\ calls[c].result.error.name = "UnexpectedError"

\* C5: the start and the settlement of login, register and logout leave
\* session and user unchanged; session and user change only in a step that
\* delivers the initial-fetch result or a change-event.
C5_OnlyDeliveriesWrite ==
    [][/\ \A c \in CallIds, k \in Kinds :
             (Starts(c, k) \/ Settles(c, k)) => UNCHANGED <<session, user>>
       /\ <<session, user>>' # <<session, user>>
             => (FetchDelivered \/ EventDelivered)]_vars

\* C5 witness: a login has resolved without error and the stored session is
\* still null, the provider's new session not being copied from the result.
C5_Witness ==
    \E c \in CallIds :
        /\ calls[c].pc = "returned"
        /\ calls[c].kind = "login"
        /\ calls[c].result = [error |-> NULL]
        /\ provSession # NULL
        /\ session = NULL /\ user = NULL

\* C6: when the provider reports an error for a login, it emits no
\* change-event, and the login resolves with a non-null error, leaves the
\* stored session as it was and ends with isLoading false.
C6_LoginErrorKeepsSession ==
    [][\A c \in CallIds :
          /\ Starts(c, "login") => session' = session
          /\ (Answers(c, "login") /\ calls'[c].resp # Thrown
                /\ calls'[c].resp.error # NULL)
                => UNCHANGED <<events, provSession, session, user>>
          /\ (Settles(c, "login") /\ calls[c].resp # Thrown
                /\ calls[c].resp.error # NULL)
                => /\ calls'[c].result # Thrown
                   /\ calls'[c].result.error # NULL
                   /\ session' = session
                   /\ ~isLoading']_vars

\* C6 witness: a login has resolved with the provider's error while a session
\* is stored, and isLoading is false.
C6_Witness ==
    \E c \in CallIds :
        /\ calls[c].pc = "returned"
        /\ calls[c].kind = "login"
        /\ calls[c].result = [error |-> ProviderError]
        /\ session # NULL
        /\ ~isLoading

\* C7: a delivered change-event sets session and user to the event's session
\* data and leaves isLoading false; no change-event step turns isLoading from
\* false to true.
C7_EventKeepsReady ==
    [][EventDelivered =>
          /\ session' = Head(events)
          /\ user' = UserOf(Head(events))
          /\ ~isLoading']_vars

\* C7 witness: with the initial fetch rejected and no operation ever called,
\* a session is stored: a change-event put it there, and isLoading is false.
C7_Witness ==
    /\ fetch.pc = "rejected"
    /\ \A c \in CallIds : calls[c].pc = "idle"
    /\ session # NULL
    /\ user = session.user
    /\ ~isLoading

\* C8: the subscription is cancelled exactly once, at teardown, and a
\* change-event emitted after teardown changes none of user, session,
\* isAuthenticated and isLoading.
C8_UnsubscribedOnceAtTeardown ==
    /\ [](unsubscribes = IF mounted THEN 0 ELSE 1)
    /\ [][(~mounted /\ events # <<>> /\ events' = Tail(events))
             => UNCHANGED <<user, session, isLoading>>]_vars

\* C8 witness: after teardown the provider's session went to null and the
\* change-event it emitted is gone, while the stored session (put there by an
\* earlier change-event) is still not null.
C8_Witness ==
    /\ ~mounted
    /\ unsubscribes = 1
    /\ fetch.pc = "rejected"
    /\ \A c \in CallIds : calls[c].pc = "idle"
    /\ provSession = NULL
    /\ events = <<>>
    /\ session # NULL

\* C9: a logout called in the logged-out state (session and user null) does
\* not throw and leaves session and user null: every such logout ends in the
\* same state, session = null, user = null, isLoading = false; and the
\* provider's sign-out of no session leaves no session and emits at most a
\* change-event carrying null.
C9_LogoutIdempotent ==
    [][\A c \in CallIds :
          /\ (Starts(c, "logout") /\ session = NULL /\ user = NULL)
                => (session' = NULL /\ user' = NULL)
          /\ (Answers(c, "logout") /\ provSession = NULL)
                => /\ provSession' = NULL
                   /\ events' # events => events' = Append(events, NULL)
          /\ (Settles(c, "logout") /\ session = NULL /\ user = NULL)
                => /\ calls'[c].result # Thrown
                   /\ <<user, session, isLoading>>' = <<NULL, NULL, FALSE>>]_vars

\* C9 witness: a logout has completed where the provider never held a
\* session; the state is logged out and not loading.
C9_Witness ==
    \E c \in CallIds :
        /\ calls[c].pc = "returned"
        /\ calls[c].kind = "logout"
        /\ ~provHeld
        /\ <<user, session, isLoading>> = <<NULL, NULL, FALSE>>

\* C10 (as claimed): where the provider has held no session, once the initial
\* fetch has settled and no operation has been started, the state is
\* user = null, session = null, isAuthenticated = false, isLoading = false.
C10_FreshStateAfterInit ==
    (/\ ~provHeld
     /\ ~FetchUnsettled
     /\ \A c \in CallIds : calls[c].pc = "idle")
        => /\ user = NULL
           /\ session = NULL
           /\ isAuthenticated = FALSE
           /\ isLoading = FALSE

\* C11: a login the provider resolves successfully makes the provider emit a
\* change-event carrying a session of that user; the listener handling a
\* session-carrying event leaves isAuthenticated true, session the event's
\* session, user its user and isLoading false; and the login settling after
\* its event was handled leaves exactly that state.
C11_LoginThenEvent ==
    [][/\ \A c \in CallIds :
             /\ (Answers(c, "login") /\ calls'[c].resp # Thrown
                   /\ calls'[c].resp.error = NULL)
                   => /\ events' = Append(events, calls'[c].resp.data.session)
                      /\ calls'[c].resp.data.session.user = [email |-> calls[c].arg]
             /\ (Settles(c, "login") /\ calls[c].resp # Thrown
                   /\ calls[c].resp.error = NULL
                   /\ session = calls[c].resp.data.session)
                   => /\ isAuthenticated'
                      /\ session' = calls[c].resp.data.session
                      /\ user' = calls[c].resp.data.user
                      /\ ~isLoading'
       /\ (EventDelivered /\ Head(events) # NULL)
             => /\ isAuthenticated'
                /\ session' = Head(events)
                /\ user' = Head(events).user
                /\ ~isLoading']_vars

\* C11 witness: a login has resolved without error, its change-event has been
\* handled (the initial fetch was rejected and stored nothing), and the state
\* is authenticated with the provider's session and not loading.
C11_Witness ==
    /\ \E c \in CallIds :
          /\ calls[c].pc = "returned"
          /\ calls[c].kind = "login"
          /\ calls[c].result = [error |-> NULL]
    /\ fetch.pc = "rejected"
    /\ events = <<>>
    /\ isAuthenticated
    /\ session # NULL /\ session = provSession
    /\ user = session.user
    /\ ~isLoading

\* C12 (as claimed): once the initial fetch result and every emitted
\* change-event have been delivered, the stored session is the provider's
\* current session, and user and isAuthenticated agree with it.
C12_MirrorsProvider ==
    (fetch.pc = "resolved" /\ events = <<>> /\ subscribed)
        => /\ session = provSession
           /\ user = UserOf(provSession)
           /\ isAuthenticated = (provSession # NULL)

\* C13: the initial fetch and the subscription both exist from creation, and
\* their results are applied last-write-wins: a change-event handled while
\* the fetch is unsettled is stored, and a fetch result delivered after
\* change-events were handled is stored too, whatever the state holds: after
\* each delivery session and user are the delivered value's.
C13_LastWriteWins ==
    /\ (fetch.pc = "pending" /\ subscribed = TRUE /\ session = NULL
          /\ events = <<>> /\ \A c \in CallIds : calls[c].pc = "idle")
       \* the state at creation, then:
    /\ [][/\ (EventDelivered /\ FetchUnsettled)
                => <<session, user>>' = <<Head(events), UserOf(Head(events))>>
          /\ FetchDelivered
                => <<session, user>>' = <<fetch.resp.data.session,
                                          UserOf(fetch.resp.data.session)>>]_vars

\* C13 witness: no operation was called, the provider's session changed and
\* its change-event was handled, and the fetch result delivered afterwards
\* put an older session back: the stored session is not the provider's.
C13_Witness ==
    /\ fetch.pc = "resolved"
    /\ subscribed
    /\ events = <<>>
    /\ \A c \in CallIds : calls[c].pc = "idle"
    /\ session # NULL
    /\ session # provSession

\* C14: the error login or register returns is the provider's error value
\* itself when the provider reported one, and it is null exactly when the
\* provider reported no error and raised no exception.
C14_ErrorPassedThrough ==
    [][\A c \in CallIds, k \in {"login", "register"} :
          Settles(c, k) =>
              /\ calls'[c].result # Thrown
              /\ calls[c].resp # Thrown
                    => calls'[c].result.error = calls[c].resp.error
              /\ (calls'[c].result.error = NULL)
                    <=> (calls[c].resp # Thrown /\ calls[c].resp.error = NULL)]_vars

\* C14 witness: a register has resolved with the error the provider reported.
C14_Witness ==
    \E c \in CallIds :
        /\ calls[c].pc = "returned"
        /\ calls[c].kind = "register"
        /\ calls[c].result = [error |-> ProviderError]

\* C15: a login that settles without error while the state is not
\* authenticated leaves it not authenticated, with isLoading false: only the
\* change-event, when it is handled, makes isAuthenticated true.
C15_LoginDoesNotAuthenticate ==
    [][\A c \in CallIds :
          (Settles(c, "login") /\ calls[c].resp # Thrown
             /\ calls[c].resp.error = NULL /\ ~isAuthenticated)
             => /\ calls'[c].result = [error |-> NULL]
                /\ ~isLoading'
                /\ ~isAuthenticated']_vars

\* C15 witness: login has resolved with error = null and isLoading is false
\* while isAuthenticated is still false, the change-event carrying the
\* provider's new session not yet being handled.
C15_Witness ==
    /\ \E c \in CallIds :
          /\ calls[c].pc = "returned"
          /\ calls[c].kind = "login"
          /\ calls[c].result = [error |-> NULL]
    /\ ~isLoading
    /\ ~isAuthenticated
    /\ subscribed
    /\ events = <<provSession>>
    /\ provSession # NULL

\* C16 (as claimed): while a login, register or logout call is outstanding,
\* isLoading is true, also after a delivery or another settlement in between.
C16_LoadingWhileOutstanding ==
    (\E c \in CallIds : Outstanding(c)) => isLoading

\* C17: the stored session is never built or altered by the synchronizer: it
\* is null at creation, every delivery of the fetch result or of a
\* change-event stores exactly the delivered value with that value's user,
\* no other step changes session or user, and so the stored session is always
\* null or a session the provider issued.
C17_StoresLastObserved ==
    /\ (session = NULL /\ user = NULL)
    /\ [](session \in SessionOrNull /\ user = UserOf(session))
    /\ [][/\ FetchDelivered
                => (session' = fetch.resp.data.session /\ user' = UserOf(session'))
          /\ EventDelivered
                => (session' = Head(events) /\ user' = UserOf(session'))
          /\ ~(FetchDelivered \/ EventDelivered)
                => UNCHANGED <<session, user>>]_vars

\* C17 witness: a register has resolved without error, every change-event
\* was handled, and the stored session is the provider's, with its user.
C17_Witness ==
    /\ \E c \in CallIds :
          /\ calls[c].pc = "returned"
          /\ calls[c].kind = "register"
          /\ calls[c].result = [error |-> NULL]
    /\ events = <<>>
    /\ session # NULL
    /\ session = provSession
    /\ user = session.user

\* C18: teardown cancels no call in flight: after teardown an answered call
\* can still settle, its settlement still writes isLoading = false, and a
\* change-event consumed after teardown changes nothing.
C18_NoCancellation ==
    /\ [](\A c \in CallIds :
             (~mounted /\ calls[c].pc = "answered")
                => ENABLED (login(c) \/ register(c) \/ logout(c)))
    /\ [][/\ \A c \in CallIds, k \in Kinds :
                (~mounted /\ Settles(c, k)) => ~isLoading'
          /\ (~mounted /\ events # <<>> /\ events' = Tail(events))
                => UNCHANGED <<user, session, isLoading>>]_vars

\* C18 witness: the scope is torn down, a login has settled with the
\* provider's error and isLoading is false, although the initial fetch is
\* still pending and the provider never held a session.
C18_Witness ==
    /\ ~mounted
    /\ \E c \in CallIds :
          /\ calls[c].pc = "returned"
          /\ calls[c].kind = "login"
          /\ calls[c].result = [error |-> ProviderError]
    /\ fetch.pc = "pending"
    /\ ~provHeld
    /\ events = <<>>
    /\ ~isLoading

\* ------------------------------------------------ ProtectedRoute.tsx
\* a ProtectedRoute without the isLoading placeholder
ProtectedRoute_SkipsLoading ==
    IF ~isAuthenticated THEN "navigate:/login" ELSE "children"

\* ProtectedRoute: what the component renders from the context value
ProtectedRoute ==
    IF isLoading THEN "Cargando..."
    ELSE IF ~isAuthenticated THEN "navigate:/login"
    ELSE "children"

\* PublicRoute: what the component renders from the context value
PublicRoute ==
    IF isLoading THEN "Cargando..."
    ELSE IF isAuthenticated THEN "navigate:/"
    ELSE "children"

\* C19: ProtectedRoute renders its children only when isLoading is false and
\* isAuthenticated is true, otherwise the loading placeholder (while loading)
\* or the redirect to /login; PublicRoute renders its children only when
\* isLoading is false and isAuthenticated is false, otherwise the placeholder
\* or the redirect to /.
C19_RouteGuards ==
    /\ ProtectedRoute = "children" => (~isLoading /\ isAuthenticated /\ session # NULL)
    /\ ProtectedRoute # "children" =>
          ProtectedRoute = (IF isLoading THEN "Cargando..." ELSE "navigate:/login")
    /\ PublicRoute = "children" => (~isLoading /\ ~isAuthenticated /\ session = NULL)
    /\ PublicRoute # "children" =>
          PublicRoute = (IF isLoading THEN "Cargando..." ELSE "navigate:/")

\* C19 witness: an authenticated, settled state: ProtectedRoute renders its
\* children and PublicRoute redirects to /.
C19_Witness ==
    /\ ~isLoading
    /\ isAuthenticated
    /\ ProtectedRoute = "children"
    /\ PublicRoute = "navigate:/"

====
